---- MODULE Spec2Model ----
(***************************************************************************)
(* express-zod-openapi-autogen: the request validation wrapper            *)
(* (src/src/openAPIRoute.ts) and the OpenAPI document builder             *)
(* (src/src/openAPI.ts), as state machines.                               *)
(*                                                                         *)
(* Spec     one wrapped handler, built by openAPIRoute(schema, middleware),*)
(*          and one request; the middleware is the environment.           *)
(* SpecConcurrent  the same handler with two requests in flight.          *)
(* SpecDoc  one run of buildOpenAPIDocument over a list of routes.        *)
(* SpecTwice  runs of buildOpenAPIDocument repeated with the same          *)
(*          arguments.                                                     *)
(* SpecRoutes  one call of getRoutes over a list of routers.               *)
(***************************************************************************)
EXTENDS Integers, Sequences, FiniteSets, TLC

(***************************************************************************)
(* Bounds of the model.                                                    *)
(***************************************************************************)
\* res.json calls the middleware makes in one invocation
MaxWrites == 1
\* exports the modules of schemaPaths hold together
MaxExports == 2

(***************************************************************************)
(* JavaScript values: undefined, strings, numbers, booleans and objects.   *)
(* An object is the sequence of its own properties in insertion order.     *)
(***************************************************************************)
Undefined == [t |-> "undefined"]
Str(s) == [t |-> "string", v |-> s]
Num(s) == [t |-> "number", v |-> s]
Bool(s) == [t |-> "boolean", v |-> s]
Prop(k, x) == [key |-> k, value |-> x]
Obj(props) == [t |-> "object", o |-> props]

HasKey(props, k) == \E j \in 1..Len(props) : props[j].key = k

Get(props, k) ==
  IF HasKey(props, k)
  THEN props[CHOOSE j \in 1..Len(props) : props[j].key = k].value
  ELSE Undefined

\* zod's getParsedType, for the message of an invalid_type issue
ParsedType(x) == IF x.t = "number" /\ x.v = "NaN" THEN "nan" ELSE x.t

(***************************************************************************)
(* Strings whose characters matter (paths, and the source of a RegExp) are *)
(* sequences of one-character strings.                                     *)
(***************************************************************************)
RECURSIVE Text(_)
\* the string of a sequence of characters
Text(cs) == IF cs = <<>> THEN "" ELSE Head(cs) \o Text(Tail(cs))

\* the lower case of the letters that the paths of the model hold in both cases
Lower(c) == IF c = "I" THEN "i" ELSE IF c = "D" THEN "d" ELSE c

MatchesAt(cs, p, j, fold) ==
  /\ j + Len(p) - 1 <= Len(cs)
  /\ \A k \in 1..Len(p) :
       IF fold THEN Lower(cs[j + k - 1]) = Lower(p[k]) ELSE cs[j + k - 1] = p[k]

\* String.prototype.indexOf, counted from 1; 0 when there is none
indexOf(cs, p) ==
  LET js == {j \in 1..Len(cs) : MatchesAt(cs, p, j, FALSE)} IN
  IF js = {} THEN 0 ELSE CHOOSE j \in js : \A k \in js : j <= k

\* String.prototype.replace(p, r) for a string p: the first occurrence only
replace(cs, p, r) ==
  LET j == indexOf(cs, p) IN
  IF j = 0 THEN cs
  ELSE SubSeq(cs, 1, j - 1) \o r \o SubSeq(cs, j + Len(p), Len(cs))

RECURSIVE replaceRegExp(_, _, _)
\* String.prototype.replace(new RegExp(p, "gi"), r) for a p of literal
\* characters: every occurrence from the left, without regard to case, and
\* what was put in is not searched again
replaceRegExp(cs, p, r) ==
  IF cs = <<>> THEN <<>>
  ELSE IF MatchesAt(cs, p, 1, TRUE)
  THEN r \o replaceRegExp(SubSeq(cs, Len(p) + 1, Len(cs)), p, r)
  ELSE <<Head(cs)>> \o replaceRegExp(Tail(cs), p, r)

RECURSIVE split(_, _)
\* String.prototype.split(sep) for a separator of one character
split(cs, sep) ==
  LET js == {j \in 1..Len(cs) : cs[j] = sep} IN
  IF js = {} THEN <<cs>>
  ELSE LET j == CHOOSE x \in js : \A y \in js : x <= y IN
       <<SubSeq(cs, 1, j - 1)>> \o split(SubSeq(cs, j + 1, Len(cs)), sep)

includes(cs, c) == \E j \in 1..Len(cs) : cs[j] = c

(***************************************************************************)
(* Zod schema instances.  A schema is an object with an identity: the      *)
(* instance n is ZodHeap[n], and 0 stands for an absent (undefined)        *)
(* schema.  Two instances with equal contents are still two instances.     *)
(***************************************************************************)
ZNode(ty, sh, inn, ref) == [type |-> ty, shape |-> sh, inner |-> inn, refId |-> ref]
Field(k, s) == [key |-> k, schema |-> s]
NoRef == ""

ZString == 1
ZNumber == 2
ZBoolean == 3
ZOptionalNumber == 4
\* mocks: BodySchema, QuerySchema, ParamsSchema, ResponseSchema
BodySchema == 5
QuerySchema == 6
ParamsSchema == 7
ResponseSchema == 8
\* src/src/schemas.ts: z.object({ error: z.string() })
ErrorResponse == 9
\* z.string().transform(Number), and params declared with it
ZToNumber == 10
ParamsCoerced == 11
\* a second z.object({ name: z.string() }): equal in structure to BodySchema
BodyTwin == 12
\* z.array(ResponseSchema), z.array(ZString)
ResponseList == 13
StringList == 14
\* transforms: of BodySchema carrying the name "BodySchema", of BodySchema
\* carrying no name, of a transform, of an object carrying an unknown name
BodyEffectNamed == 15
BodyEffectBare == 16
EffectOfEffect == 17
ParamsEffectOther == 18
\* z.array(BodySchema.transform(...))
EffectList == 19
\* z.object({ city: z.string() }), and
\* z.object({ name: z.string(), address: z.object({ city: z.string() }) })
AddressSchema == 20
ProfileSchema == 21

ZodHeap ==
  <<ZNode("ZodString", <<>>, 0, NoRef),
    ZNode("ZodNumber", <<>>, 0, NoRef),
    ZNode("ZodBoolean", <<>>, 0, NoRef),
    ZNode("ZodOptional", <<>>, ZNumber, NoRef),
    ZNode("ZodObject", <<Field("name", ZString)>>, 0, NoRef),
    ZNode("ZodObject", <<Field("age", ZOptionalNumber)>>, 0, NoRef),
    ZNode("ZodObject", <<Field("id", ZString)>>, 0, NoRef),
    ZNode("ZodObject", <<Field("success", ZBoolean)>>, 0, NoRef),
    ZNode("ZodObject", <<Field("error", ZString)>>, 0, NoRef),
    ZNode("ZodEffects", <<>>, ZString, NoRef),
    ZNode("ZodObject", <<Field("id", ZToNumber)>>, 0, NoRef),
    ZNode("ZodObject", <<Field("name", ZString)>>, 0, NoRef),
    ZNode("ZodArray", <<>>, ResponseSchema, NoRef),
    ZNode("ZodArray", <<>>, ZString, NoRef),
    ZNode("ZodEffects", <<>>, BodySchema, "BodySchema"),
    ZNode("ZodEffects", <<>>, BodySchema, NoRef),
    ZNode("ZodEffects", <<>>, BodyEffectBare, NoRef),
    ZNode("ZodEffects", <<>>, ParamsSchema, "Elsewhere"),
    ZNode("ZodArray", <<>>, BodyEffectBare, NoRef),
    ZNode("ZodObject", <<Field("city", ZString)>>, 0, NoRef),
    ZNode("ZodObject", <<Field("name", ZString), Field("address", AddressSchema)>>, 0, NoRef)>>

SchemaIds == 1..Len(ZodHeap)

(***************************************************************************)
(* schema.safeParse(value): zod's validation of the schema kinds above.    *)
(* A result is {success, data} or {success, error: {issues}}, an issue     *)
(* being {path, message}.                                                  *)
(***************************************************************************)
Ok(x) == [success |-> TRUE, data |-> x, issues |-> <<>>]
Fail(is) == [success |-> FALSE, data |-> Undefined, issues |-> is]
Issue(p, m) == [path |-> p, message |-> m]

InvalidType(expected, x) ==
  IF x.t = "undefined"
  THEN Issue(<<>>, "Required")
  ELSE Issue(<<>>, "Expected " \o expected \o ", received " \o ParsedType(x))

\* the transform of ZToNumber: Number(s)
Numeric == {"30", "123"}
ToNumber(x) == IF x.v \in Numeric THEN Num(x.v) ELSE Num("NaN")

RECURSIVE Under(_, _)
\* the issues of a property's value, their paths prefixed with its key
Under(k, is) ==
  IF is = <<>> THEN <<>>
  ELSE <<Issue(<<k>> \o Head(is).path, Head(is).message)>> \o Under(k, Tail(is))

RECURSIVE safeParse(_, _)
RECURSIVE parseShape(_, _)
safeParse(s, x) ==
  LET z == ZodHeap[s] IN
  CASE z.type = "ZodString" ->
         IF x.t = "string" THEN Ok(x) ELSE Fail(<<InvalidType("string", x)>>)
    [] z.type = "ZodNumber" ->
         IF x.t = "number" /\ x.v # "NaN" THEN Ok(x) ELSE Fail(<<InvalidType("number", x)>>)
    [] z.type = "ZodBoolean" ->
         IF x.t = "boolean" THEN Ok(x) ELSE Fail(<<InvalidType("boolean", x)>>)
    [] z.type = "ZodOptional" ->
         IF x.t = "undefined" THEN Ok(Undefined) ELSE safeParse(z.inner, x)
    [] z.type = "ZodEffects" ->
         \* the transform runs on the inner schema's data: Number for a string,
         \* and one that returns its argument for the other values
         LET r == safeParse(z.inner, x) IN
         IF r.success /\ r.data.t = "string" THEN Ok(ToNumber(r.data)) ELSE r
    [] z.type = "ZodArray" ->
         \* the values of the model hold no arrays
         Fail(<<InvalidType("array", x)>>)
    [] z.type = "ZodObject" ->
         IF x.t # "object" THEN Fail(<<InvalidType("object", x)>>)
         ELSE LET r == parseShape(z.shape, x.o) IN
              IF r.issues = <<>> THEN Ok(Obj(r.data)) ELSE Fail(r.issues)

\* the properties of a ZodObject, in the order of its shape; keys the shape
\* does not name are stripped
parseShape(shape, props) ==
  IF shape = <<>> THEN [data |-> <<>>, issues |-> <<>>]
  ELSE LET f == Head(shape)
           r == safeParse(f.schema, Get(props, f.key))
           rest == parseShape(Tail(shape), props)
           keep == r.success /\ (HasKey(props, f.key) \/ r.data # Undefined)
       IN [data |-> (IF keep THEN <<Prop(f.key, r.data)>> ELSE <<>>) \o rest.data,
           issues |-> Under(f.key, r.issues) \o rest.issues]

\* z.union([a, b]).safeParse(x)
unionSafeParse(a, b, x) ==
  LET ra == safeParse(a, x)
      rb == safeParse(b, x)
  IN IF ra.success THEN ra
     ELSE IF rb.success THEN rb
     ELSE Fail(<<Issue(<<>>, "Invalid input")>>)

(***************************************************************************)
(* openAPIRoute.ts                                                         *)
(***************************************************************************)
RECURSIVE Join(_, _)
Join(strs, sep) ==
  IF strs = <<>> THEN ""
  ELSE IF Len(strs) = 1 THEN strs[1]
  ELSE strs[1] \o sep \o Join(Tail(strs), sep)

RECURSIVE IssueLines(_)
IssueLines(is) ==
  IF is = <<>> THEN <<>>
  ELSE LET i == Head(is) IN
       <<IF Len(i.path) > 0 THEN Join(i.path, ".") \o ": " \o i.message ELSE i.message>>
         \o IssueLines(Tail(is))

\* lines 65-69 with the first issue alone
getErrorSummaryOfFirst(is) == IF is = <<>> THEN "" ELSE Head(IssueLines(is))

\* lines 65-69
getErrorSummary(is) == Join(IssueLines(is), ", ")

\* check with line 49 returning no data
checkWithoutData(obj, s) == IF s = 0 THEN Ok(Undefined) ELSE safeParse(s, obj)

\* lines 44-53
check(obj, s) == IF s = 0 THEN Ok(obj) ELSE safeParse(s, obj)

(***************************************************************************)
(* State.  schema is the descriptor given to openAPIRoute and NODE_ENV the *)
(* process's runtime mode; the other variables are per invocation of the   *)
(* wrapped handler fn.                                                     *)
(***************************************************************************)
Invocations == {"r1", "r2"}

VARIABLES
  schema,     \* the SchemaDefinition: body, query, params, response (0: absent)
  NODE_ENV,   \* process.env.NODE_ENV
  pc,         \* idle, sync (in the middleware's call), await (on its promise), done
  received,   \* the body, query and params the request arrived with
  req,        \* the request's body, query and params
  validated,  \* the calls of safeParse: the part, its schema and the value given
  res,        \* the response: statusCode, and whether res.json is the patched one
  seen,       \* the body, query and params of each call of the middleware
  thrown,     \* what the middleware threw, or rejected its promise with
  calls,      \* the payloads the middleware passed to res.json
  writes,     \* what reached the original res.json: statusCode and body
  forwarded,  \* the errors passed to next
  promise,    \* fn's own promise: pending, fulfilled, rejected
  console     \* the console.warn messages of the process

routeVars ==
  <<schema, NODE_ENV, pc, received, req, validated, res, seen, thrown, calls, writes, forwarded,
    promise, console>>

VARIABLES
  docpc,            \* buildOpenAPIDocument: load, routes, generate, attach, verify, returned
  exported,         \* the [key, schema] entries of the modules of schemaPaths, in order
  routes,           \* the routes getRoutes(routers) returns
  errors,           \* args.errors: the descriptions of 401 and 403
  securitySchemes,  \* args.securitySchemes
  schemas,          \* the named schemas: key, schema and registered handle
  definitions,      \* the route configs given to registry.registerPath
  resolved,         \* the calls of referencingNamedSchemas: field, type and result
  openapiJSON,      \* the document: its operations and components.securitySchemes
  warned,           \* the console.warn messages of buildOpenAPIDocument
  fromGenerator,    \* the document as generator.generateDocument returned it
  previous,         \* the earlier calls: what the generator and the call returned
  turn              \* the turns of the loop over the routes that are done

docVars ==
  <<docpc, exported, routes, errors, securitySchemes, schemas, definitions, resolved,
    openapiJSON, warned, fromGenerator, previous, turn>>

VARIABLES
  routers,   \* getRoutes: the routers it is given
  cursor,    \* the place of the next layer of lines 267-271: router and layer
  found,     \* the routes pushed so far
  walkpc     \* walking, returned, thrown

walkVars == <<routers, cursor, found, walkpc>>

vars == <<routeVars, docVars, walkVars>>

Request(b, q, p) == [body |-> b, query |-> q, params |-> p]

Bodies ==
  {Undefined,
   Obj(<<Prop("name", Str("John"))>>),
   Obj(<<Prop("name", Num("123"))>>),
   Obj(<<Prop("name", Str("John")), Prop("extra", Str("x"))>>),
   Obj(<<Prop("name", Num("123")), Prop("address", Obj(<<Prop("city", Num("123"))>>))>>)}
Queries ==
  {Obj(<<Prop("age", Num("30"))>>),
   Obj(<<Prop("age", Str("thirty"))>>)}
Params ==
  {Obj(<<Prop("id", Str("123"))>>),
   Obj(<<Prop("id", Num("123"))>>)}
Requests == {Request(b, q, p) : b \in Bodies, q \in Queries, p \in Params}

\* Express has dispatched no request to fn
NoRequest == Request(Undefined, Undefined, Undefined)

Payloads ==
  {Obj(<<Prop("success", Bool("true"))>>),
   Obj(<<Prop("success", Str("true"))>>),
   Obj(<<Prop("error", Str("Not found"))>>)}

Errors == {"TypeError", "RangeError"}

Modes == {"production", "development"}

Descriptors ==
  [body : {0, BodySchema, ProfileSchema}, query : {0, QuerySchema},
   params : {0, ParamsSchema, ParamsCoerced}, response : {0, ResponseSchema}]

\* one request is dispatched to fn
RouteInit ==
  /\ schema \in Descriptors
  /\ NODE_ENV \in Modes
  /\ pc = [i \in Invocations |-> "idle"]
  /\ \E r \in Requests : received = [i \in Invocations |-> IF i = "r1" THEN r ELSE NoRequest]
  /\ req = received
  /\ validated = [i \in Invocations |-> <<>>]
  /\ res = [i \in Invocations |-> [statusCode |-> 200, json |-> "original"]]
  /\ seen = [i \in Invocations |-> <<>>]
  /\ thrown = [i \in Invocations |-> <<>>]
  /\ calls = [i \in Invocations |-> <<>>]
  /\ writes = [i \in Invocations |-> <<>>]
  /\ forwarded = [i \in Invocations |-> <<>>]
  /\ promise = [i \in Invocations |-> "pending"]
  /\ console = <<>>

\* the descriptors and the requests of two requests in flight at once
ConcurrentDescriptors ==
  {d \in Descriptors :
     d.body \in {0, BodySchema} /\ d.query = 0 /\ d.params = ParamsCoerced /\ d.response # 0}
ConcurrentRequests ==
  {Request(b, q, p) :
     b \in {Obj(<<Prop("name", Str("John"))>>),
            Obj(<<Prop("name", Str("John")), Prop("extra", Str("x"))>>),
            Obj(<<Prop("name", Num("123"))>>)},
     q \in {Obj(<<Prop("age", Num("30"))>>)},
     p \in Params}

\* two requests are dispatched to fn
ConcurrentInit ==
  /\ schema \in ConcurrentDescriptors
  /\ NODE_ENV \in Modes
  /\ pc = [i \in Invocations |-> "idle"]
  /\ received \in [Invocations -> ConcurrentRequests]
  /\ req = received
  /\ validated = [i \in Invocations |-> <<>>]
  /\ res = [i \in Invocations |-> [statusCode |-> 200, json |-> "original"]]
  /\ seen = [i \in Invocations |-> <<>>]
  /\ thrown = [i \in Invocations |-> <<>>]
  /\ calls = [i \in Invocations |-> <<>>]
  /\ writes = [i \in Invocations |-> <<>>]
  /\ forwarded = [i \in Invocations |-> <<>>]
  /\ promise = [i \in Invocations |-> "pending"]
  /\ console = <<>>

\* fn and the middleware run to completion: no other invocation is inside a
\* synchronous stretch
Idle(i) == \A j \in Invocations \ {i} : pc[j] # "sync"

\* lines 85-87 with no validation after the first one that fails
safeParseCallsUntilFailure(r) ==
  LET body == IF schema.body # 0
              THEN <<[part |-> "body", schema |-> schema.body, value |-> r.body]>> ELSE <<>>
      query == IF schema.query # 0
               THEN <<[part |-> "query", schema |-> schema.query, value |-> r.query]>> ELSE <<>>
      params == IF schema.params # 0
                THEN <<[part |-> "params", schema |-> schema.params, value |-> r.params]>> ELSE <<>>
  IN IF ~check(r.body, schema.body).success THEN body
     ELSE IF ~check(r.query, schema.query).success THEN body \o query
     ELSE body \o query \o params

\* lines 85-87 with lines 48-51: the calls of schema.safeParse the three calls
\* of check make, in order; check calls it when the schema is declared
safeParseCalls(r) ==
  LET body == IF schema.body # 0
              THEN <<[part |-> "body", schema |-> schema.body, value |-> r.body]>> ELSE <<>>
      query == IF schema.query # 0
               THEN <<[part |-> "query", schema |-> schema.query, value |-> r.query]>> ELSE <<>>
      params == IF schema.params # 0
                THEN <<[part |-> "params", schema |-> schema.params, value |-> r.params]>> ELSE <<>>
  IN body \o query \o params

\* line 89 without its last conjunct
allValidButParams(bodyResult, queryResult, paramResult) ==
  bodyResult.success /\ queryResult.success

\* line 89
allValid(bodyResult, queryResult, paramResult) ==
  bodyResult.success /\ queryResult.success /\ paramResult.success

\* lines 109-111 with params left as it arrived
definePropertiesButParams(r, bodyResult, queryResult, paramResult) ==
  [r EXCEPT !.query = queryResult.data, !.body = bodyResult.data]

\* lines 109-111: Object.defineProperty(req, ..., { value: ...Result.data })
defineProperties(r, bodyResult, queryResult, paramResult) ==
  [r EXCEPT !.query = queryResult.data, !.body = bodyResult.data, !.params = paramResult.data]

\* lines 120-130 with the query tested before the body
reportedQueryFirst(bodyResult, queryResult, paramResult) ==
  IF ~queryResult.success THEN queryResult.issues
  ELSE IF ~bodyResult.success THEN bodyResult.issues
  ELSE IF ~paramResult.success THEN paramResult.issues
  ELSE <<>>

\* lines 120-130 without the tests of the query and of the params
reportedOfBodyOnly(bodyResult, queryResult, paramResult) ==
  IF ~bodyResult.success THEN bodyResult.issues ELSE <<>>

\* lines 120-130: the issues reported, of the first failing result; <<>> when
\* none failed (line 132)
reported(bodyResult, queryResult, paramResult) ==
  IF ~bodyResult.success THEN bodyResult.issues
  ELSE IF ~queryResult.success THEN queryResult.issues
  ELSE IF ~paramResult.success THEN paramResult.issues
  ELSE <<>>

ErrorBody(summary) == Obj(<<Prop("error", Str(summary))>>)

CouldNotValidate == "zod-express-guard could not validate this request"

\* lines 93-105 without the test of NODE_ENV
warningsInAnyMode(body) ==
  LET result == IF schema.response # 0
                THEN unionSafeParse(schema.response, ErrorResponse, body)
                ELSE Ok(Undefined)
  IN IF ~result.success
     THEN <<"Note: Response JSON does not match schema:\n" \o getErrorSummary(result.issues)>>
     ELSE <<>>

\* lines 93-105: the console.warn messages of one call of the patched res.json
warnings(body) ==
  IF NODE_ENV # "production"
  THEN LET result == IF schema.response # 0
                     THEN unionSafeParse(schema.response, ErrorResponse, body)
                     ELSE Ok(Undefined)
       IN IF ~result.success
          THEN <<"Note: Response JSON does not match schema:\n" \o getErrorSummary(result.issues)>>
          ELSE <<>>
  ELSE <<>>

\* line 106 handing on the parsed data in place of the body
passedOnParsed(body) ==
  IF schema.response # 0
  THEN unionSafeParse(schema.response, ErrorResponse, body).data
  ELSE body

\* line 106: what the patched res.json hands to the original one
passedOn(body) == body

\* fn, lines 84-133, up to the call of the middleware
Invoke(i) ==
  /\ pc[i] = "idle"
  /\ received[i] # NoRequest
  /\ Idle(i)
  /\ LET bodyResult == check(req[i].body, schema.body)
         queryResult == check(req[i].query, schema.query)
         paramResult == check(req[i].params, schema.params)
         failed == reported(bodyResult, queryResult, paramResult)
     IN IF allValid(bodyResult, queryResult, paramResult)
        THEN /\ res' = [res EXCEPT ![i].json = "patched"]
             /\ req' = [req EXCEPT ![i] =
                    defineProperties(@, bodyResult, queryResult, paramResult)]
             /\ seen' = [seen EXCEPT ![i] = Append(@, req'[i])]
             /\ pc' = [pc EXCEPT ![i] = "sync"]
             /\ UNCHANGED <<writes, forwarded, promise>>
        ELSE IF failed # <<>>
        THEN /\ res' = [res EXCEPT ![i].statusCode = 400]
             /\ writes' = [writes EXCEPT ![i] =
                    Append(@, [statusCode |-> 400, body |-> ErrorBody(getErrorSummary(failed))])]
             /\ pc' = [pc EXCEPT ![i] = "done"]
             /\ promise' = [promise EXCEPT ![i] = "fulfilled"]
             /\ UNCHANGED <<req, seen, forwarded>>
        ELSE /\ forwarded' = [forwarded EXCEPT ![i] = Append(@, CouldNotValidate)]
             /\ pc' = [pc EXCEPT ![i] = "done"]
             /\ promise' = [promise EXCEPT ![i] = "fulfilled"]
             /\ UNCHANGED <<req, res, seen, writes>>
  /\ validated' = [validated EXCEPT ![i] = safeParseCalls(req[i])]
  /\ UNCHANGED <<schema, NODE_ENV, received, thrown, calls, console, docVars, walkVars>>

\* lines 92-106 with _json and res those of the first call of fn
firstResponse(i) == "r1"

\* lines 92-106: the response whose json line 92 saved in _json and line 106
\* applies it to; both are bindings of this call of fn
capturedResponse(i) == i

\* the middleware calls res.json(body): the patched one, lines 93-107
HandlerJson(i, body) ==
  /\ pc[i] \in {"sync", "await"}
  /\ pc[i] = "await" => Idle(i)
  /\ Len(calls[i]) < MaxWrites
  /\ calls' = [calls EXCEPT ![i] = Append(@, body)]
  /\ IF res[i].json = "patched"
     THEN /\ console' = console \o warnings(body)
          /\ writes' = [writes EXCEPT ![capturedResponse(i)] =
                 Append(@, [statusCode |-> res[capturedResponse(i)].statusCode,
                            body |-> passedOn(body)])]
     ELSE /\ console' = console
          /\ writes' = [writes EXCEPT ![i] =
                 Append(@, [statusCode |-> res[i].statusCode, body |-> body])]
  /\ UNCHANGED <<schema, NODE_ENV, validated, pc, received, req, res, seen, thrown, forwarded, promise, docVars, walkVars>>

\* lines 115-116 with next called without the error
caughtAndDropped(err) == <<"undefined">>

\* lines 115-116: what the catch clause passes to next
caught(err) == <<err>>

\* the promise of fn once the catch clause has run
afterCatch == "fulfilled"

\* the middleware throws: lines 113-117
HandlerThrow(i, err) ==
  /\ pc[i] = "sync"
  /\ thrown' = [thrown EXCEPT ![i] = Append(@, [error |-> err, from |-> "call"])]
  /\ forwarded' = [forwarded EXCEPT ![i] = @ \o caught(err)]
  /\ pc' = [pc EXCEPT ![i] = "done"]
  /\ promise' = [promise EXCEPT ![i] = afterCatch]
  /\ UNCHANGED <<schema, NODE_ENV, validated, received, req, res, seen, calls, writes, console, docVars, walkVars>>

\* the middleware returns a value that is no promise, or a settled one
HandlerReturn(i) ==
  /\ pc[i] = "sync"
  /\ pc' = [pc EXCEPT ![i] = "done"]
  /\ promise' = [promise EXCEPT ![i] = "fulfilled"]
  /\ UNCHANGED <<schema, NODE_ENV, validated, received, req, res, seen, thrown, calls, writes, forwarded, console, docVars, walkVars>>

\* the middleware returns a pending promise: line 114 awaits it
HandlerAwait(i) ==
  /\ pc[i] = "sync"
  /\ pc' = [pc EXCEPT ![i] = "await"]
  /\ UNCHANGED <<schema, NODE_ENV, validated, received, req, res, seen, thrown, calls, writes, forwarded,
                 promise, console, docVars, walkVars>>

\* the awaited promise is fulfilled
HandlerResolve(i) ==
  /\ pc[i] = "await"
  /\ Idle(i)
  /\ pc' = [pc EXCEPT ![i] = "done"]
  /\ promise' = [promise EXCEPT ![i] = "fulfilled"]
  /\ UNCHANGED <<schema, NODE_ENV, validated, received, req, res, seen, thrown, calls, writes, forwarded, console, docVars, walkVars>>

\* the awaited promise is rejected: lines 115-116
HandlerReject(i, err) ==
  /\ pc[i] = "await"
  /\ Idle(i)
  /\ thrown' = [thrown EXCEPT ![i] = Append(@, [error |-> err, from |-> "promise"])]
  /\ forwarded' = [forwarded EXCEPT ![i] = @ \o caught(err)]
  /\ pc' = [pc EXCEPT ![i] = "done"]
  /\ promise' = [promise EXCEPT ![i] = afterCatch]
  /\ UNCHANGED <<schema, NODE_ENV, validated, received, req, res, seen, calls, writes, console, docVars, walkVars>>

Next ==
  \E i \in Invocations :
    \/ Invoke(i)
    \/ \E body \in Payloads : HandlerJson(i, body)
    \/ \E err \in Errors : HandlerThrow(i, err)
    \/ HandlerReturn(i)
    \/ HandlerAwait(i)
    \/ HandlerResolve(i)
    \/ \E err \in Errors : HandlerReject(i, err)

\* no request has arrived
RouteIdle ==
  /\ schema = [body |-> 0, query |-> 0, params |-> 0, response |-> 0]
  /\ NODE_ENV = "production"
  /\ pc = [i \in Invocations |-> "done"]
  /\ received = [i \in Invocations |-> Request(Undefined, Undefined, Undefined)]
  /\ req = received
  /\ validated = [i \in Invocations |-> <<>>]
  /\ res = [i \in Invocations |-> [statusCode |-> 200, json |-> "original"]]
  /\ seen = [i \in Invocations |-> <<>>]
  /\ thrown = [i \in Invocations |-> <<>>]
  /\ calls = [i \in Invocations |-> <<>>]
  /\ writes = [i \in Invocations |-> <<>>]
  /\ forwarded = [i \in Invocations |-> <<>>]
  /\ promise = [i \in Invocations |-> "pending"]
  /\ console = <<>>

(***************************************************************************)
(* openAPI.ts: buildOpenAPIDocument                                        *)
(***************************************************************************)
Export(k, s) == [key |-> k, schema |-> s]

\* what the modules of schemaPaths may export: the mocks' schemas, one of
\* them under a second name, another instance under a name already used, an
\* array and a schema that is neither an object nor an array
Exports ==
  {Export("BodySchema", BodySchema), Export("BodySchema", BodyTwin),
   Export("ResponseSchema", ResponseSchema), Export("Response", ResponseSchema),
   Export("ResponseList", ResponseList), Export("Name", ZString)}

RECURSIVE Lists(_, _)
\* the sequences of at most n distinct elements of S
Lists(S, n) ==
  IF n = 0 THEN {<<>>}
  ELSE LET shorter == Lists(S, n - 1) IN
       shorter \cup {Append(l, x) : l \in shorter, x \in S}

Distinct(l) == \A j, k \in 1..Len(l) : j # k => l[j] # l[k]

ExportLists == {l \in Lists(Exports, MaxExports) : Distinct(l)}

\* the schemas a route descriptor may declare
RouteSchemas ==
  {BodySchema, BodyTwin, QuerySchema, ResponseSchema, ResponseList, StringList,
   BodyEffectNamed, BodyEffectBare, EffectOfEffect, ParamsEffectOther, EffectList}

\* a property that may be missing: None, or Some(value)
None == <<>>
Some(x) == <<x>>
\* the test JavaScript makes of a string that may be missing: if (text)
Truthy(o) == o # None /\ o[1] # ""

NoSchema ==
  [tag |-> "", body |-> 0, query |-> 0, params |-> 0, response |-> 0,
   responseContentType |-> None, finalizeRouteConfig |-> None]

\* a handler that openAPIRoute did not build has no validateSchema
Unwrapped == [wrapped |-> FALSE]
Wrapped(d) == [wrapped |-> TRUE, validateSchema |-> d]

UsersDescriptor ==
  [NoSchema EXCEPT !.tag = "Users", !.params = ParamsSchema, !.query = QuerySchema,
                   !.response = ResponseSchema]

RouteDescriptors ==
  {[NoSchema EXCEPT !.tag = "Test", !.body = s] : s \in RouteSchemas}
    \cup {[NoSchema EXCEPT !.tag = "Test", !.query = s] : s \in RouteSchemas}
    \cup {[NoSchema EXCEPT !.tag = "Test", !.params = s] : s \in RouteSchemas}
    \cup {[NoSchema EXCEPT !.tag = "Test", !.response = s] : s \in RouteSchemas}
    \cup {UsersDescriptor,
          [NoSchema EXCEPT !.body = BodySchema, !.response = ResponseList,
                           !.responseContentType = Some("text/csv")],
          [NoSchema EXCEPT !.tag = "Test", !.responseContentType = Some("text/csv")],
          [NoSchema EXCEPT !.tag = "Test", !.response = ResponseSchema,
                           !.responseContentType = Some("")],
          [NoSchema EXCEPT !.tag = "Test", !.responseContentType = Some("")],
          [NoSchema EXCEPT !.tag = "Test", !.query = QuerySchema,
                           !.finalizeRouteConfig = Some("internal")],
          NoSchema}

Route(p, m, h) == [path |-> p, method |-> m, handler |-> h]

\* path templates: /test, /v1/users/:id, /:a/b/:c, /:id/:idx and /:id/:ID
TestPath == <<"/", "t", "e", "s", "t">>
UserPath == <<"/", "v", "1", "/", "u", "s", "e", "r", "s", "/", ":", "i", "d">>
TwoPath == <<"/", ":", "a", "/", "b", "/", ":", "c">>
PrefixPath == <<"/", ":", "i", "d", "/", ":", "i", "d", "x">>
CasePath == <<"/", ":", "i", "d", "/", ":", "I", "D">>
Paths == {TestPath, UserPath, TwoPath, PrefixPath, CasePath}

DiscoveredRoutes ==
  {Route(TestPath, "get", Wrapped(d)) : d \in RouteDescriptors}
    \cup {Route(p, "post", Wrapped(UsersDescriptor)) : p \in Paths}
    \cup {Route(UserPath, "put", Wrapped([NoSchema EXCEPT !.tag = "Users", !.params = QuerySchema])),
          Route(TestPath, "post", Unwrapped)}

ErrorMap(a, b) == [e401 |-> a, e403 |-> b]

\* args.errors: a description of 401 and of 403, each missing, empty or a text
ErrorMaps ==
  {ErrorMap(None, None), ErrorMap(Some("Unauthorized"), Some("Forbidden")),
   ErrorMap(Some("Unauthorized"), None), ErrorMap(Some(""), Some("Forbidden")),
   ErrorMap(None, Some(""))}

\* an object of named entries, in insertion order
Entry(k, x) == [key |-> k, value |-> x]

\* args.securitySchemes: missing, or an object of named schemes
SecuritySchemeMaps ==
  {None, Some(<<Entry("apiKey", "apiKey header"), Entry("bearerAuth", "http bearer")>>)}

\* before generator.generateDocument has returned
NoDocument == [paths |-> <<>>, securitySchemes |-> None]

DocInit ==
  /\ docpc = "load"
  /\ exported \in ExportLists
  /\ routes \in {<<>>} \cup {<<r>> : r \in DiscoveredRoutes}
  /\ errors \in ErrorMaps
  /\ securitySchemes \in SecuritySchemeMaps
  /\ schemas = <<>>
  /\ definitions = <<>>
  /\ resolved = <<>>
  /\ openapiJSON = NoDocument
  /\ warned = <<>>
  /\ fromGenerator = NoDocument
  /\ previous = <<>>
  /\ turn = 0

\* no document is being built
DocIdle ==
  /\ docpc = "idle"
  /\ exported = <<>>
  /\ routes = <<>>
  /\ errors = [e401 |-> None, e403 |-> None]
  /\ securitySchemes = None
  /\ schemas = <<>>
  /\ definitions = <<>>
  /\ resolved = <<>>
  /\ openapiJSON = NoDocument
  /\ warned = <<>>
  /\ fromGenerator = NoDocument
  /\ previous = <<>>
  /\ turn = 0

InstanceOf(s, type) == s # 0 /\ ZodHeap[s].type = type

\* registry.register(key, schema): a new instance of the schema's class that
\* carries the refId key
Registered(k, s) == [kind |-> "registered", refId |-> k, schema |-> s]
\* a schema instance as it is, to be inlined
Inline(s) == [kind |-> "schema", schema |-> s]
\* z.array(registered)
ArrayOf(r) == [kind |-> "array", element |-> r]
\* z.unknown()
Unknown == [kind |-> "unknown"]
Absent == [kind |-> "undefined"]

RECURSIVE namedSchemas(_)
\* lines 35-42: the exports that are a ZodObject or a ZodArray, registered
namedSchemas(entries) ==
  IF entries = <<>> THEN <<>>
  ELSE LET e == Head(entries) IN
       (IF InstanceOf(e.schema, "ZodObject") \/ InstanceOf(e.schema, "ZodArray")
        THEN <<[key |-> e.key, schema |-> e.schema, registered |-> Registered(e.key, e.schema)]>>
        ELSE <<>>) \o namedSchemas(Tail(entries))

Min(S) == CHOOSE x \in S : \A y \in S : x <= y

\* schemas.find((s) => s.key === refId): the place of the first one, or 0
findKey(refId) ==
  LET js == {j \in 1..Len(schemas) : schemas[j].key = refId} IN
  IF refId = NoRef \/ js = {} THEN 0 ELSE Min(js)

\* find with the schemas compared by their structure
findSchemaDeepEqual(type) ==
  LET js == {j \in 1..Len(schemas) : type # 0 /\ ZodHeap[schemas[j].schema] = ZodHeap[type]} IN
  IF js = {} THEN 0 ELSE Min(js)

\* schemas.find((a) => a.schema === type): the place of the first one, or 0
findSchema(type) ==
  LET js == {j \in 1..Len(schemas) : schemas[j].schema = type} IN
  IF js = {} THEN 0 ELSE Min(js)

\* lines 44-67 without lines 60-65
referencingNamedSchemasNoArray(type) ==
  IF type = 0 THEN Absent
  ELSE IF InstanceOf(type, "ZodEffects")
  THEN LET nonEffectedObj == findKey(ZodHeap[type].refId) IN
       IF nonEffectedObj # 0 THEN schemas[nonEffectedObj].registered
       ELSE Inline(ZodHeap[type].inner)
  ELSE LET named == findSchema(type) IN
       IF named # 0 THEN schemas[named].registered ELSE Inline(type)

RECURSIVE referencingNamedSchemasDeep(_)
\* lines 44-67 with the inner type of line 53 resolved in its turn
referencingNamedSchemasDeep(type) ==
  IF type = 0 THEN Absent
  ELSE IF InstanceOf(type, "ZodEffects")
  THEN LET nonEffectedObj == findKey(ZodHeap[type].refId) IN
       IF nonEffectedObj # 0 THEN schemas[nonEffectedObj].registered
       ELSE referencingNamedSchemasDeep(ZodHeap[type].inner)
  ELSE LET named == findSchema(type) IN
       IF named # 0 THEN schemas[named].registered
       ELSE LET namedChild ==
                  IF InstanceOf(type, "ZodArray") THEN findSchema(ZodHeap[type].inner) ELSE 0
            IN IF namedChild # 0 THEN ArrayOf(schemas[namedChild].registered)
               ELSE Inline(type)

\* lines 44-67
referencingNamedSchemas(type) ==
  IF type = 0 THEN Absent
  ELSE IF InstanceOf(type, "ZodEffects")
  THEN LET nonEffectedObj == findKey(ZodHeap[type].refId) IN
       IF nonEffectedObj # 0 THEN schemas[nonEffectedObj].registered
       ELSE Inline(ZodHeap[type].inner)
  ELSE LET named == findSchema(type) IN
       IF named # 0 THEN schemas[named].registered
       ELSE LET namedChild ==
                  IF InstanceOf(type, "ZodArray") THEN findSchema(ZodHeap[type].inner) ELSE 0
            IN IF namedChild # 0 THEN ArrayOf(schemas[namedChild].registered)
               ELSE Inline(type)

\* lines 229-234 without the test of ZodObject
asZodType(type) == type

\* lines 229-234
asZodObject(type) ==
  IF type.kind \in {"registered", "schema"} /\ InstanceOf(type.schema, "ZodObject")
  THEN type
  ELSE Absent

\* lines 59-63 and line 84 with a descriptor other than {} for a handler that
\* has none
getSchemaOfOpenAPIRouteOrUsers(handler) ==
  IF handler.wrapped THEN handler.validateSchema ELSE UsersDescriptor

\* lines 59-63, and line 84: the descriptor of a handler, or {}
getSchemaOfOpenAPIRoute(handler) ==
  IF handler.wrapped THEN handler.validateSchema ELSE NoSchema

ErrorEntry(text) ==
  [description |-> text, content |-> "application/json", schema |-> Inline(ErrorResponse)]

\* lines 96-115 with the description of 401 given to both entries
errorDescriptionOf401(code) == errors.e401

\* lines 96-115: the caller's description of 401 or 403
errorDescription(code) == IF code = 401 THEN errors.e401 ELSE errors.e403

\* line 118 with the test of line 130
notFoundWhenPayload(d) == d.query # 0 \/ d.body # 0

\* line 118: if (params)
notFound(d) == d.params # 0

\* line 130 with the test of line 118 added
badRequestWhenParams(d) == d.query # 0 \/ d.body # 0 \/ d.params # 0

\* line 130: if (query || body)
badRequest(d) == d.query # 0 \/ d.body # 0

\* lines 143-163 with the response schema tested first
successResponseFirst(d) ==
  IF d.response # 0 THEN "json"
  ELSE IF Truthy(d.responseContentType) THEN "payload"
  ELSE "none"

\* lines 143-163: which of the three branches is taken
success(d) ==
  IF Truthy(d.responseContentType) THEN "payload"
  ELSE IF d.response # 0 THEN "json"
  ELSE "none"

\* lines 92-163: the responses of a route
responsesOf(d) ==
  LET codes ==
        {c \in {401, 403} : Truthy(errorDescription(c))}
          \cup (IF notFound(d) THEN {404} ELSE {})
          \cup (IF badRequest(d) THEN {400} ELSE {})
          \cup (IF success(d) = "none" THEN {204} ELSE {200})
  IN [c \in codes |->
       CASE c \in {401, 403} -> ErrorEntry(errorDescription(c)[1])
         [] c = 404 -> ErrorEntry("The item you requested could not be found")
         [] c = 400 ->
              ErrorEntry("The request payload or query string parameter you passed was not valid")
         [] c = 200 ->
              IF success(d) = "payload"
              THEN [description |-> "A " \o d.responseContentType[1] \o " payload",
                    content |-> d.responseContentType[1], schema |-> Unknown]
              ELSE [description |-> "200", content |-> "application/json",
                    schema |-> referencingNamedSchemas(d.response)]
         [] c = 204 ->
              [description |-> "No content - successful operation", content |-> "",
               schema |-> Absent]]

RECURSIVE reducePlaceholders(_, _)
\* line 90: the reduce over the segments that hold a colon
reducePlaceholders(iPath, segments) ==
  IF segments = <<>> THEN iPath
  ELSE LET replaceMe == Head(segments) IN
       reducePlaceholders(
         replaceRegExp(iPath, replaceMe, <<"{">> \o Tail(replaceMe) \o <<"}">>),
         Tail(segments))

\* lines 87-90: /path/to/:variable/something -> /path/to/{variable}/something
pathOpenAPIFormat(path) ==
  reducePlaceholders(path, SelectSeq(split(path, "/"), LAMBDA seg : includes(seg, ":")))

\* lines 187-189: the descriptor's finalizeRouteConfig, applied when there
\* is one; the one of the model is (config) => ({ ...config, tags: ["Internal"] })
finalized(config, d) ==
  IF d.finalizeRouteConfig # None THEN [config EXCEPT !.tags = <<"Internal">>] ELSE config

\* lines 164-189: the route config of a route; summary, description,
\* deprecated and security are the descriptor's
openapiRouteConfig(route) ==
  LET d == getSchemaOfOpenAPIRoute(route.handler) IN
  finalized(
    [tags |-> <<IF d.tag # "" THEN d.tag ELSE "default">>,
     method |-> route.method,
     path |-> pathOpenAPIFormat(route.path),
     request |-> [params |-> asZodObject(referencingNamedSchemas(d.params)),
                  query |-> asZodObject(referencingNamedSchemas(d.query)),
                  body |-> IF d.body # 0 THEN referencingNamedSchemas(d.body) ELSE Absent],
     responses |-> responsesOf(d)],
    d)

\* the calls of referencingNamedSchemas for one route, in the order of the
\* code: lines 157, 173, 174 and 179
Call(f, type) == [field |-> f, type |-> type, result |-> referencingNamedSchemas(type)]
resolutions(route) ==
  LET d == getSchemaOfOpenAPIRoute(route.handler) IN
  (IF success(d) = "json" THEN <<Call("response", d.response)>> ELSE <<>>)
    \o <<Call("params", d.params), Call("query", d.query)>>
    \o (IF d.body # 0 THEN <<Call("body", d.body)>> ELSE <<>>)

\* lines 32-42
LoadSchemas ==
  /\ docpc = "load"
  /\ schemas' = namedSchemas(exported)
  /\ docpc' = "routes"
  /\ UNCHANGED <<exported, routes, errors, securitySchemes, definitions, resolved, openapiJSON,
                 warned, fromGenerator, previous, turn, routeVars, walkVars>>

\* lines 71-192: one turn of the loop over the routes
RegisterPath ==
  /\ docpc = "routes"
  /\ turn < Len(routes)
  /\ definitions' = Append(definitions, openapiRouteConfig(routes[turn + 1]))
  /\ resolved' = resolved \o resolutions(routes[turn + 1])
  /\ turn' = turn + 1
  /\ UNCHANGED <<docpc, exported, routes, errors, securitySchemes, schemas, openapiJSON, warned,
                 fromGenerator, previous, routeVars, walkVars>>

\* the loop is over
RoutesDone ==
  /\ docpc = "routes"
  /\ turn = Len(routes)
  /\ docpc' = "generate"
  /\ UNCHANGED <<exported, routes, errors, securitySchemes, schemas, definitions, resolved,
                 openapiJSON, warned, fromGenerator, previous, turn, routeVars, walkVars>>

\* generator.generateDocument: the parameters of an operation are the
\* properties of request.params, in path, and of request.query, in query; a
\* parameter is required unless its schema is optional
parametersOf(type, where) ==
  IF type = Absent THEN <<>>
  ELSE LET shape == ZodHeap[type.schema].shape IN
       [j \in 1..Len(shape) |->
          [name |-> shape[j].key, in |-> where,
           required |-> ~InstanceOf(shape[j].schema, "ZodOptional")]]

\* line 198: the operations of the generated document, one for each route config
generateDocument(configs) ==
  [j \in 1..Len(configs) |->
     [route |-> configs[j].path, method |-> configs[j].method, tags |-> configs[j].tags,
      parameters |-> parametersOf(configs[j].request.params, "path")
                       \o parametersOf(configs[j].request.query, "query"),
      responses |-> configs[j].responses]]

\* the components.securitySchemes a generated document may hold
GeneratedSchemes ==
  {None, Some(<<Entry("bearerAuth", "generated"), Entry("oauth", "oauth2")>>)}

HasEntry(object, k) == \E j \in 1..Len(object) : object[j].key = k

\* target[k] = x
assignEntry(object, k, x) ==
  IF HasEntry(object, k)
  THEN [j \in 1..Len(object) |-> IF object[j].key = k THEN Entry(k, x) ELSE object[j]]
  ELSE Append(object, Entry(k, x))

RECURSIVE assignKeepingTarget(_, _)
\* Object.assign with the target's entries taking precedence
assignKeepingTarget(target, source) ==
  IF source = <<>> THEN target
  ELSE assignKeepingTarget(
         IF HasEntry(target, Head(source).key) THEN target
         ELSE Append(target, Head(source)),
         Tail(source))

RECURSIVE assign(_, _)
\* line 203: Object.assign(target, source)
assign(target, source) ==
  IF source = <<>> THEN target
  ELSE assign(assignEntry(target, Head(source).key, Head(source).value), Tail(source))

\* lines 201-204
attached(document) ==
  IF securitySchemes # None
  THEN [document EXCEPT !.securitySchemes =
          Some(assign(IF @ = None THEN <<>> ELSE @[1], securitySchemes[1]))]
  ELSE document

\* line 213 without the test of param.in
isOptional(param) == param.required = FALSE

\* line 213
isOptionalInPath(param) == param.required = FALSE /\ param.in = "path"

\* line 214 leaving the parameter as it is
leftOptional(param) == param

\* line 214: param.required = true
madeRequired(param) == [param EXCEPT !.required = TRUE]

\* lines 215-219
Warning(route, name) ==
  "OpenAPI Warning: The route " \o Text(route) \o " has an optional parameter " \o name
    \o " in the path. Optional parameters in the route path are not supported by readme.io. "
    \o "Make the parameter required or split the route definition into two separate ones, "
    \o "one with the param and one without."

\* lines 208-224: the paths once the loops have run
verified(paths) ==
  [j \in 1..Len(paths) |->
     [paths[j] EXCEPT !.parameters =
        [k \in 1..Len(@) |-> IF isOptionalInPath(@[k]) THEN madeRequired(@[k]) ELSE @[k]]]]

RECURSIVE warningsOfParameters(_, _)
warningsOfParameters(route, parameters) ==
  IF parameters = <<>> THEN <<>>
  ELSE (IF isOptionalInPath(Head(parameters))
        THEN <<Warning(route, Head(parameters).name)>> ELSE <<>>)
         \o warningsOfParameters(route, Tail(parameters))

RECURSIVE warningsOfPaths(_)
\* lines 208-224: the console.warn messages of the loops, in order
warningsOfPaths(paths) ==
  IF paths = <<>> THEN <<>>
  ELSE warningsOfParameters(Head(paths).route, Head(paths).parameters)
         \o warningsOfPaths(Tail(paths))

\* lines 194-198
Generate ==
  /\ docpc = "generate"
  /\ \E generated \in GeneratedSchemes :
       \* the generator is a function of the definitions it is given
       /\ \A k \in 1..Len(previous) :
            previous[k].definitions = definitions =>
              generated = previous[k].fromGenerator.securitySchemes
       /\ openapiJSON' = [paths |-> generateDocument(definitions), securitySchemes |-> generated]
  /\ fromGenerator' = openapiJSON'
  /\ docpc' = "attach"
  /\ UNCHANGED <<exported, routes, errors, securitySchemes, schemas, definitions, resolved,
                 warned, previous, turn, routeVars, walkVars>>

\* lines 200-204
AttachSecuritySchemes ==
  /\ docpc = "attach"
  /\ openapiJSON' = attached(openapiJSON)
  /\ docpc' = "verify"
  /\ UNCHANGED <<exported, routes, errors, securitySchemes, schemas, definitions, resolved,
                 warned, fromGenerator, previous, turn, routeVars, walkVars>>

\* lines 206-225
VerifyParameters ==
  /\ docpc = "verify"
  /\ openapiJSON' = [openapiJSON EXCEPT !.paths = verified(@)]
  /\ warned' = warned \o warningsOfPaths(openapiJSON.paths)
  /\ docpc' = "returned"
  /\ UNCHANGED <<exported, routes, errors, securitySchemes, schemas, definitions, resolved,
                 fromGenerator, previous, turn, routeVars, walkVars>>

NextDoc ==
  \/ LoadSchemas
  \/ RegisterPath
  \/ RoutesDone
  \/ Generate
  \/ AttachSecuritySchemes
  \/ VerifyParameters

\* calls of buildOpenAPIDocument with the same arguments
MaxBuilds == 2

\* line 31 with the registry of the call before
registryOfLastCall == definitions

\* line 31: new OpenAPIRegistry(), its definitions
OpenAPIRegistry == <<>>

\* buildOpenAPIDocument is called again with the arguments of the call that
\* returned: lines 30-31.  The modules of schemaPaths, the routers and their
\* descriptors are the objects of the call before; the console is the same.
BuildAgain ==
  /\ docpc = "returned"
  /\ Len(previous) + 1 < MaxBuilds
  /\ previous' = Append(previous, [definitions |-> definitions, fromGenerator |-> fromGenerator,
                                   document |-> openapiJSON])
  /\ definitions' = OpenAPIRegistry
  /\ schemas' = <<>>
  /\ resolved' = <<>>
  /\ openapiJSON' = NoDocument
  /\ fromGenerator' = NoDocument
  /\ turn' = 0
  /\ docpc' = "load"
  /\ UNCHANGED <<exported, routes, errors, securitySchemes, warned, routeVars, walkVars>>

NextTwice ==
  \/ LoadSchemas
  \/ RegisterPath
  \/ RoutesDone
  \/ Generate
  \/ AttachSecuritySchemes
  \/ VerifyParameters
  \/ BuildAgain

\* the arguments of the calls that are repeated
TwiceInit ==
  /\ docpc = "load"
  /\ exported \in ExportLists
  /\ routes \in {<<>>} \cup {<<r>> : r \in DiscoveredRoutes}
  /\ errors = ErrorMap(Some("Unauthorized"), None)
  /\ securitySchemes \in SecuritySchemeMaps
  /\ schemas = <<>>
  /\ definitions = <<>>
  /\ resolved = <<>>
  /\ openapiJSON = NoDocument
  /\ warned = <<>>
  /\ fromGenerator = NoDocument
  /\ previous = <<>>
  /\ turn = 0

(***************************************************************************)
(* openAPI.ts: getRoutes.  A layer of a router's stack has a name, a       *)
(* handle, a regexp and a route; each of the last three may be undefined.  *)
(***************************************************************************)
\* layers of one stack
MaxLayers == 2

NoHandle == [kind |-> "undefined"]
\* a middleware function: it has no stack
FunctionHandle == [kind |-> "function"]
\* a Router: a function that has a stack
RouterHandle(stack) == [kind |-> "router", stack |-> stack]

NoRegExp == [kind |-> "undefined"]
\* the regexp of a layer mounted at /
FastSlash == [kind |-> "regexp", fast_slash |-> TRUE, string |-> <<"/", "^", "\\", "/", "?", "$", "/", "i">>]

RECURSIVE Escaped(_)
\* the source of a RegExp holds a / as \/
Escaped(cs) ==
  IF cs = <<>> THEN <<>>
  ELSE (IF Head(cs) = "/" THEN <<"\\", "/">> ELSE <<Head(cs)>>) \o Escaped(Tail(cs))

\* (?:\/(?=$))?(?=\/|$)/i
MountSuffix ==
  <<"(", "?", ":", "\\", "/", "(", "?", "=", "$", ")", ")", "?",
    "(", "?", "=", "\\", "/", "|", "$", ")", "/", "i">>

\* the regexp of a layer mounted at a literal path, and its toString():
\* /^\/v1(?:\/(?=$))?(?=\/|$)/i for /v1
MountRegExp(mount) ==
  [kind |-> "regexp", fast_slash |-> FALSE,
   string |-> <<"/", "^">> \o Escaped(mount) \o MountSuffix]

\* a regexp of another form: /^\/v1\/?$/i
OtherRegExp ==
  [kind |-> "regexp", fast_slash |-> FALSE,
   string |-> <<"/", "^", "\\", "/", "v", "1", "\\", "/", "?", "$", "/", "i">>]

\* lines 237-242
regexPrefixToString(path) ==
  IF path.fast_slash THEN <<>>
  ELSE replace(replace(path.string, <<"/", "^", "\\">>, <<>>), MountSuffix, <<>>)

NoRoute == [kind |-> "undefined"]
RouteOf(path, stack) == [kind |-> "route", path |-> path, stack |-> stack]
\* a layer of a route's stack
Handler(method, handle) == [method |-> method, handle |-> handle]

Layer(name, handle, regexp, route) ==
  [name |-> name, handle |-> handle, regexp |-> regexp, route |-> route]

\* router.get(path, ...handlers), router.route(path)
RouteLayer(path, stack) == Layer("bound dispatch", FunctionHandle, OtherRegExp, RouteOf(path, stack))
\* router.use(mount, Router())
RouterLayer(regexp, stack) == Layer("router", RouterHandle(stack), regexp, NoRoute)

\* mount paths: /v1 and /api/v1
V1 == <<"/", "v", "1">>
ApiV1 == <<"/", "a", "p", "i", "/", "v", "1">>
UsersIdPath == <<"/", "u", "s", "e", "r", "s", "/", ":", "i", "d">>
XPath == <<"/", "x">>

MountRegExps == {MountRegExp(V1), MountRegExp(ApiV1), FastSlash}

\* router.get("/users/:id", handler)
GetUser == RouteLayer(UsersIdPath, <<Handler("get", Wrapped(UsersDescriptor))>>)
\* router.post("/test", middleware, handler)
PostTest ==
  RouteLayer(TestPath, <<Handler("post", Unwrapped), Handler("post", Wrapped(NoSchema))>>)
\* router.route("/x").get(handler).post(handler)
GetPostX ==
  RouteLayer(XPath, <<Handler("get", Wrapped(UsersDescriptor)), Handler("post", Wrapped(NoSchema))>>)
\* router.route("/x"), with no handler yet
EmptyRoute == RouteLayer(XPath, <<>>)
\* router.use(express.json())
JsonParser == Layer("jsonParser", FunctionHandle, FastSlash, NoRoute)
\* router.use(function router(req, res, next) { ... })
NamedRouter == Layer("router", FunctionHandle, FastSlash, NoRoute)
\* an object that is no layer of Express: named router, with no handle
NoHandleRouter == Layer("router", NoHandle, FastSlash, NoRoute)

Leaves == {GetUser, PostTest, GetPostX, EmptyRoute, JsonParser, NamedRouter, NoHandleRouter}

Mounted ==
  {RouterLayer(r, <<l>>) : r \in MountRegExps, l \in {GetUser, PostTest, JsonParser}}
    \cup {RouterLayer(MountRegExp(V1), <<l>>) : l \in {EmptyRoute, NoHandleRouter}}
    \cup {RouterLayer(r, <<GetUser>>) : r \in {NoRegExp, OtherRegExp}}
    \cup {RouterLayer(MountRegExp(V1), <<PostTest, GetUser>>),
          RouterLayer(MountRegExp(V1), <<>>), RouterLayer(NoRegExp, <<>>)}

Nested == {RouterLayer(r, <<RouterLayer(q, <<GetUser>>)>>) : r \in MountRegExps, q \in MountRegExps}

Layers == Leaves \cup Mounted \cup Nested

\* Router(): its stack
RouterOf(stack) == [stack |-> stack]

RouterLists ==
  {<<>>}
    \cup {<<RouterOf(stack)>> : stack \in Lists(Layers, MaxLayers)}
    \cup {<<RouterOf(<<a>>), RouterOf(<<b>>)>> : a \in Leaves, b \in Leaves}

\* what a call has pushed to routes, and whether it threw
Returned(rs) == [routes |-> rs, error |-> ""]
Thrown(rs) == [routes |-> rs, error |-> "TypeError"]

\* lines 260-264 with the handler the first of the route's stack
pushedFirstHandler(route, prefix) ==
  Route(prefix \o route.path, route.stack[1].method, route.stack[1].handle)

\* lines 260-264: the triple pushed for a route: the method of the first
\* layer of its stack and the handle of the last
pushed(route, prefix) ==
  Route(prefix \o route.path, route.stack[1].method, route.stack[Len(route.stack)].handle)

RECURSIVE processMiddleware(_, _)
RECURSIVE processStack(_, _, _)
\* lines 253-255: the loop over middleware.handle.stack
processStack(stack, middleware, prefix) ==
  IF stack = <<>> THEN Returned(<<>>)
  ELSE IF middleware.regexp = NoRegExp THEN Thrown(<<>>)
  ELSE LET first == processMiddleware(Head(stack), prefix \o regexPrefixToString(middleware.regexp)) IN
       IF first.error # "" THEN first
       ELSE LET rest == processStack(Tail(stack), middleware, prefix) IN
            [routes |-> first.routes \o rest.routes, error |-> rest.error]

\* lines 251-265
processMiddleware(middleware, prefix) ==
  IF middleware.name = "router" /\ middleware.handle = NoHandle THEN Thrown(<<>>)
  ELSE LET inside == IF middleware.name = "router" /\ middleware.handle.kind = "router"
                     THEN processStack(middleware.handle.stack, middleware, prefix)
                     ELSE Returned(<<>>)
       IN IF inside.error # "" THEN inside
          ELSE IF middleware.route = NoRoute THEN inside
          ELSE IF middleware.route.stack = <<>> THEN Thrown(inside.routes)
          ELSE Returned(Append(inside.routes, pushed(middleware.route, prefix)))

RECURSIVE stacksOf(_)
\* lines 267-268: the layers of the routers, in the order of the two loops
stacksOf(rs) == IF rs = <<>> THEN <<>> ELSE Head(rs).stack \o stacksOf(Tail(rs))

WalkInit ==
  /\ routers \in RouterLists
  /\ cursor = 1
  /\ found = <<>>
  /\ walkpc = "walking"

\* getRoutes is not running
WalkIdle ==
  /\ routers = <<>>
  /\ cursor = 1
  /\ found = <<>>
  /\ walkpc = "idle"

\* line 269: processMiddleware(middleware) returns
ProcessMiddleware ==
  /\ walkpc = "walking"
  /\ cursor <= Len(stacksOf(routers))
  /\ LET result == processMiddleware(stacksOf(routers)[cursor], <<>>) IN
     /\ result.error = ""
     /\ found' = found \o result.routes
  /\ cursor' = cursor + 1
  /\ UNCHANGED <<routers, walkpc, routeVars, docVars>>

\* line 269: processMiddleware(middleware) throws, and so does getRoutes
ProcessThrows ==
  /\ walkpc = "walking"
  /\ cursor <= Len(stacksOf(routers))
  /\ LET result == processMiddleware(stacksOf(routers)[cursor], <<>>) IN
     /\ result.error # ""
     /\ found' = found \o result.routes
  /\ walkpc' = "thrown"
  /\ UNCHANGED <<routers, cursor, routeVars, docVars>>

\* line 272
ReturnRoutes ==
  /\ walkpc = "walking"
  /\ cursor > Len(stacksOf(routers))
  /\ walkpc' = "returned"
  /\ UNCHANGED <<routers, cursor, found, routeVars, docVars>>

NextRoutes == ProcessMiddleware \/ ProcessThrows \/ ReturnRoutes

Init == RouteInit /\ DocIdle /\ WalkIdle

Spec == Init /\ [][Next]_vars

InitDoc == DocInit /\ RouteIdle /\ WalkIdle

SpecDoc == InitDoc /\ [][NextDoc]_vars

InitRoutes == WalkInit /\ RouteIdle /\ DocIdle

SpecRoutes == InitRoutes /\ [][NextRoutes]_vars

InitTwice == TwiceInit /\ RouteIdle /\ WalkIdle

SpecTwice == InitTwice /\ [][NextTwice]_vars

InitConcurrent == ConcurrentInit /\ DocIdle /\ WalkIdle

SpecConcurrent == InitConcurrent /\ [][Next]_vars

(***************************************************************************)
(* Properties of the reference resolver, checked under SpecDoc.            *)
(***************************************************************************)
Resolutions == {resolved[k] : k \in 1..Len(resolved)}

\* the places of the named schemas whose schema is the instance type
EntriesOf(type) == {j \in 1..Len(schemas) : schemas[j].schema = type}

\* another instance with the same contents
Twin(s, t) == s # 0 /\ t # 0 /\ s # t /\ ZodHeap[s] = ZodHeap[t]

ReferenceTo(result, name) == result.kind = "registered" /\ result.refId = name

EntriesNamed(refId) == {j \in 1..Len(schemas) : refId # NoRef /\ schemas[j].key = refId}

C10_TransformResolvesByNameOrUnwrapsOnce ==
  \A c \in Resolutions :
    InstanceOf(c.type, "ZodEffects") =>
      LET named == EntriesNamed(ZodHeap[c.type].refId) IN
      IF named # {}
      THEN /\ c.result = schemas[Min(named)].registered
           /\ ReferenceTo(c.result, ZodHeap[c.type].refId)
      ELSE c.result = Inline(ZodHeap[c.type].inner)

C10_Witness ==
  \E c \in Resolutions :
    /\ c.type = BodyEffectBare
    /\ EntriesOf(BodySchema) # {}
    /\ c.result = Inline(BodySchema)

(***************************************************************************)
(* Properties of the responses of a route, checked under SpecDoc.  The     *)
(* route config definitions[k] is that of routes[k].                       *)
(***************************************************************************)
Configs == 1..Len(definitions)
DescriptorOf(k) == getSchemaOfOpenAPIRoute(routes[k].handler)
Codes(k) == DOMAIN definitions[k].responses
IsErrorEntry(entry, text) ==
  /\ entry.description = text
  /\ entry.content = "application/json"
  /\ entry.schema = Inline(ErrorResponse)

\* C11: the responses of a route hold a 404 exactly when the route declares
\* a params schema, whatever it declares as body and query.
C11_NotFoundIffParams ==
  \A k \in Configs : 404 \in Codes(k) <=> DescriptorOf(k).params # 0

C11_Witness ==
  \E k \in Configs :
    /\ DescriptorOf(k).params # 0
    /\ DescriptorOf(k).body = 0 /\ DescriptorOf(k).query = 0
    /\ 404 \in Codes(k) /\ 400 \notin Codes(k)
    /\ IsErrorEntry(definitions[k].responses[404], "The item you requested could not be found")

\* C12: the responses of a route hold a 400 exactly when the route declares
\* a query schema or a body schema, whatever it declares as params.
C12_BadRequestIffQueryOrBody ==
  \A k \in Configs :
    400 \in Codes(k) <=> (DescriptorOf(k).query # 0 \/ DescriptorOf(k).body # 0)

C12_Witness ==
  \E k \in Configs :
    /\ DescriptorOf(k).body # 0
    /\ DescriptorOf(k).params = 0 /\ DescriptorOf(k).query = 0
    /\ 400 \in Codes(k) /\ 404 \notin Codes(k)

\* the success entry the responses must hold, for a route that counts as
\* declaring a content type when overridden is true
SuccessEntryIs(k, overridden) ==
  LET d == DescriptorOf(k)
      r == definitions[k].responses
  IN /\ Cardinality(Codes(k) \cap {200, 204}) = 1
     /\ IF overridden
        THEN /\ 200 \in Codes(k)
             /\ r[200].content = d.responseContentType[1]
             /\ r[200].schema = Unknown
        ELSE IF d.response # 0
        THEN /\ 200 \in Codes(k)
             /\ r[200].content = "application/json"
             /\ r[200].schema = referencingNamedSchemas(d.response)
        ELSE /\ 204 \in Codes(k)
             /\ r[204].description = "No content - successful operation"

\* C13 as stated: the responses hold exactly one success entry: a 200 of
\* the declared content type, with an unknown body, when the descriptor has
\* a responseContentType, be it with a response schema; else a JSON 200 of
\* the resolved response schema when it has one; else a 204.
C13_AsStated ==
  \A k \in Configs : SuccessEntryIs(k, DescriptorOf(k).responseContentType # None)

\* C13, amended: the same, where a content type is declared when the
\* descriptor's responseContentType is a string that is not empty; an empty
\* one counts as none.
C13_OneSuccessEntryByPriority ==
  \A k \in Configs :
    SuccessEntryIs(k, DescriptorOf(k).responseContentType \notin {None, Some("")})

C13_Witness ==
  \E k \in Configs :
    /\ DescriptorOf(k).responseContentType = Some("text/csv")
    /\ DescriptorOf(k).response # 0
    /\ Codes(k) \cap {200, 204} = {200}
    /\ definitions[k].responses[200].content = "text/csv"
    /\ definitions[k].responses[200].schema = Unknown

\* the entry of 401 or 403 the responses must hold, for a caller's
\* description that counts as present when given is true
ErrorEntryIs(k, code, text, given) ==
  IF given
  THEN code \in Codes(k) /\ IsErrorEntry(definitions[k].responses[code], text[1])
  ELSE code \notin Codes(k)

\* C14 as stated: the responses of every route hold a 401 (a 403) with the
\* error envelope exactly when args.errors has a description of 401 (403),
\* and the entry's description is that text.
C14_AsStated ==
  \A k \in Configs :
    /\ ErrorEntryIs(k, 401, errors.e401, errors.e401 # None)
    /\ ErrorEntryIs(k, 403, errors.e403, errors.e403 # None)

\* C14, amended: the same, where a description is present when it is a
\* string that is not empty; for an empty description no entry is made.
C14_ErrorEntryIffDescribed ==
  \A k \in Configs :
    /\ ErrorEntryIs(k, 401, errors.e401, errors.e401 \notin {None, Some("")})
    /\ ErrorEntryIs(k, 403, errors.e403, errors.e403 \notin {None, Some("")})

C14_Witness ==
  \E k \in Configs :
    /\ errors.e401 = Some("Unauthorized") /\ errors.e403 = None
    /\ IsErrorEntry(definitions[k].responses[401], "Unauthorized")
    /\ 403 \notin Codes(k)

(***************************************************************************)
(* Properties of route discovery, checked under SpecRoutes.                *)
(***************************************************************************)
IsRouter(layer) == layer.name = "router" /\ layer.handle.kind = "router"

\* the literal path a router layer is mounted at
MountOf(regexp) ==
  IF regexp = FastSlash THEN <<>>
  ELSE CHOOSE mount \in {V1, ApiV1} : MountRegExp(mount) = regexp

RECURSIVE LiteralMounts(_)
\* every router of the layers is mounted at a literal path, or at /
LiteralMounts(layers) ==
  \A j \in 1..Len(layers) :
    IsRouter(layers[j]) =>
      layers[j].regexp \in MountRegExps /\ LiteralMounts(layers[j].handle.stack)

RECURSIVE PrefixedPaths(_, _)
\* the paths of the routes of the layers, each after the mount paths of the
\* routers around it, outermost first
PrefixedPaths(layers, prefix) ==
  IF layers = <<>> THEN <<>>
  ELSE LET layer == Head(layers) IN
       (IF IsRouter(layer)
        THEN PrefixedPaths(layer.handle.stack, prefix \o MountOf(layer.regexp))
        ELSE IF layer.route # NoRoute THEN <<prefix \o layer.route.path>>
        ELSE <<>>) \o PrefixedPaths(Tail(layers), prefix)

FoundPaths == [j \in 1..Len(found) |-> found[j].path]

\* C15: the path of a route found inside mounted routers is the mount
\* paths of the routers around it, outermost first, followed by the route's
\* own path; a router mounted at / adds nothing.
C15_AsStated ==
  (walkpc = "returned" /\ LiteralMounts(stacksOf(routers))) =>
    FoundPaths = PrefixedPaths(stacksOf(routers), <<>>)

RECURSIVE Malformed(_)
\* a layer of the layers makes processMiddleware throw
Malformed(layers) ==
  \E j \in 1..Len(layers) :
    \/ layers[j].name = "router" /\ layers[j].handle = NoHandle
    \/ layers[j].route # NoRoute /\ layers[j].route.stack = <<>>
    \/ IsRouter(layers[j]) /\ layers[j].handle.stack # <<>> /\ layers[j].regexp = NoRegExp
    \/ IsRouter(layers[j]) /\ Malformed(layers[j].handle.stack)

RECURSIVE WellFormedRoutes(_)
\* the number of routes of the layers that have a handler
WellFormedRoutes(layers) ==
  IF layers = <<>> THEN 0
  ELSE LET layer == Head(layers) IN
       (IF IsRouter(layer) /\ layer.regexp # NoRegExp THEN WellFormedRoutes(layer.handle.stack)
        ELSE IF layer.route # NoRoute /\ layer.route.stack # <<>> THEN 1
        ELSE 0) + WellFormedRoutes(Tail(layers))

\* C20: getRoutes never throws, whatever the layers are, and returns a
\* route for every route of the routers that has a handler.
C20_AsStated ==
  /\ walkpc # "thrown"
  /\ walkpc = "returned" => Len(found) = WellFormedRoutes(stacksOf(routers))

RECURSIVE LeafRoutes(_)
\* the routes of the layers in discovery order: the layers of a stack in
\* order, and those of a mounted router in the place of its layer
LeafRoutes(layers) ==
  IF layers = <<>> THEN <<>>
  ELSE LET layer == Head(layers) IN
       (IF IsRouter(layer) THEN LeafRoutes(layer.handle.stack) ELSE <<>>)
         \o (IF layer.route # NoRoute THEN <<layer.route>> ELSE <<>>)
         \o LeafRoutes(Tail(layers))

DeclaredMethods(route) == {route.stack[k].method : k \in 1..Len(route.stack)}
LastHandler(route) == route.stack[Len(route.stack)].handle

\* C27: the routes getRoutes returns are one for each route of the
\* routers, in discovery order: the routers in the order given, the layers
\* of a stack in order, a mounted router's routes in the place of its
\* layer.  Each carries a method declared on its route and the handle of
\* the last layer of the route's stack, so that getSchemaOfOpenAPIRoute
\* gives the descriptor of the last handler.
C27_OneTriplePerRouteInOrder ==
  walkpc = "returned" =>
    LET leaves == LeafRoutes(stacksOf(routers)) IN
    /\ Len(found) = Len(leaves)
    /\ \A j \in 1..Len(found) :
         /\ found[j].method \in DeclaredMethods(leaves[j])
         /\ Cardinality(DeclaredMethods(leaves[j])) = 1 =>
              \A k \in 1..Len(leaves[j].stack) : leaves[j].stack[k].method = found[j].method
         /\ found[j].handler = LastHandler(leaves[j])
         /\ LastHandler(leaves[j]).wrapped =>
              getSchemaOfOpenAPIRoute(found[j].handler) = LastHandler(leaves[j]).validateSchema

C27_Witness ==
  /\ walkpc = "returned"
  /\ routers = <<RouterOf(<<RouterLayer(MountRegExp(V1), <<PostTest, GetUser>>), GetPostX>>)>>
  /\ Len(found) = 3
  /\ found[1].method = "post" /\ found[1].handler = Wrapped(NoSchema)
  /\ found[2].method = "get" /\ found[2].handler = Wrapped(UsersDescriptor)
  /\ found[3].handler = Wrapped(NoSchema)

(***************************************************************************)
(* Properties of the document, checked under SpecDoc.                      *)
(***************************************************************************)
RECURSIVE JoinPath(_)
\* the segments with a / between them
JoinPath(segments) ==
  IF Len(segments) = 1 THEN Head(segments)
  ELSE Head(segments) \o <<"/">> \o JoinPath(Tail(segments))

\* the path with each segment :name written {name}
Placeholders(path) ==
  LET segments == split(path, "/") IN
  JoinPath([j \in 1..Len(segments) |->
    IF segments[j] # <<>> /\ Head(segments[j]) = ":"
    THEN <<"{">> \o Tail(segments[j]) \o <<"}">>
    ELSE segments[j]])

\* C16: the path a route is registered with is the route's path with every
\* :name written {name} and the rest of the path as it was, also for a path
\* of several placeholders.
C16_AsStated ==
  \A k \in Configs : definitions[k].path = Placeholders(routes[k].path)

Operations == 1..Len(openapiJSON.paths)
ParametersOf(j) == openapiJSON.paths[j].parameters
\* the document as the generator made it
Generated == generateDocument(definitions)
\* the places of the parameters the generator made optional in a path
OptionalInPath ==
  {<<j, k>> \in (1..Len(Generated)) \X (1..2) :
     /\ k <= Len(Generated[j].parameters)
     /\ Generated[j].parameters[k].in = "path"
     /\ ~Generated[j].parameters[k].required}

\* C17: in the document buildOpenAPIDocument returns, every parameter in
\* path, of every path and method, is required.
C17_PathParametersRequired ==
  docpc = "returned" =>
    \A j \in Operations : \A k \in 1..Len(ParametersOf(j)) :
      ParametersOf(j)[k].in = "path" => ParametersOf(j)[k].required = TRUE

C17_Witness ==
  /\ docpc = "returned"
  /\ OptionalInPath # {}
  /\ \A pos \in OptionalInPath : ParametersOf(pos[1])[pos[2]].required = TRUE

\* C18: a parameter the generator made optional in a path does not make
\* buildOpenAPIDocument fail: the document is returned with it required,
\* and with one warning for it that names its route and the parameter; a
\* parameter that was required, or is not in path, is returned as it was
\* and has no warning.
C18_OneWarningPerOptionalPathParameter ==
  docpc = "returned" =>
    /\ Len(warned) = Cardinality(OptionalInPath)
    /\ \A pos \in OptionalInPath :
         /\ Warning(Generated[pos[1]].route, Generated[pos[1]].parameters[pos[2]].name)
              \in {warned[w] : w \in 1..Len(warned)}
         /\ ParametersOf(pos[1])[pos[2]] =
              [Generated[pos[1]].parameters[pos[2]] EXCEPT !.required = TRUE]
    /\ \A j \in Operations : \A k \in 1..Len(ParametersOf(j)) :
         <<j, k>> \notin OptionalInPath => ParametersOf(j)[k] = Generated[j].parameters[k]

C18_Witness ==
  /\ docpc = "returned"
  /\ routes = <<Route(UserPath, "put", Wrapped([NoSchema EXCEPT !.tag = "Users", !.params = QuerySchema]))>>
  /\ warned = <<Warning(<<"/", "v", "1", "/", "u", "s", "e", "r", "s", "/", "{", "i", "d", "}">>, "age")>>
  /\ ParametersOf(1) = <<[name |-> "age", in |-> "path", required |-> TRUE]>>

ValueOf(object, k) == object[CHOOSE j \in 1..Len(object) : object[j].key = k].value
Keys(object) == {object[j].key : j \in 1..Len(object)}

\* C19: when securitySchemes is given, the document's securitySchemes
\* holds, once lines 201-204 have run, every entry given with the value
\* given, and every entry it held under another key with the value it had,
\* and no other entry; when none is given they are left as they were.
C19_SecuritySchemesMerged ==
  [][docpc = "attach" =>
       LET before == IF openapiJSON.securitySchemes = None THEN <<>>
                     ELSE openapiJSON.securitySchemes[1]
       IN IF securitySchemes = None
          THEN openapiJSON' = openapiJSON
          ELSE /\ openapiJSON'.securitySchemes # None
               /\ openapiJSON'.paths = openapiJSON.paths
               /\ LET after == openapiJSON'.securitySchemes[1]
                      given == securitySchemes[1]
                  IN /\ Keys(after) = Keys(before) \cup Keys(given)
                     /\ Len(after) = Cardinality(Keys(after))
                     /\ \A k \in Keys(given) : ValueOf(after, k) = ValueOf(given, k)
                     /\ \A k \in Keys(before) \ Keys(given) :
                          ValueOf(after, k) = ValueOf(before, k)]_vars

\* the caller's bearerAuth replaces the generated one, in its place, oauth
\* is kept and apiKey is added
C19_Witness ==
  /\ docpc = "verify"
  /\ securitySchemes = Some(<<Entry("apiKey", "apiKey header"), Entry("bearerAuth", "http bearer")>>)
  /\ openapiJSON.securitySchemes =
       Some(<<Entry("bearerAuth", "http bearer"), Entry("oauth", "oauth2"),
              Entry("apiKey", "apiKey header")>>)

(***************************************************************************)
(* Properties of the wrapper, checked under Spec.                          *)
(***************************************************************************)
\* whether a part of the request, as it arrived, validates against its schema
Valid(x, s) == s = 0 \/ safeParse(s, x).success
BodyValid(i) == Valid(received[i].body, schema.body)
QueryValid(i) == Valid(received[i].query, schema.query)
ParamsValid(i) == Valid(received[i].params, schema.params)
AllValid(i) == BodyValid(i) /\ QueryValid(i) /\ ParamsValid(i)
Started(i) == pc[i] # "idle"

SummaryOf(x, s) == getErrorSummary(safeParse(s, x).issues)
BodySummary(i) == SummaryOf(received[i].body, schema.body)
QuerySummary(i) == SummaryOf(received[i].query, schema.query)
ParamsSummary(i) == SummaryOf(received[i].params, schema.params)

\* the summaries of the parts of the request that fail
FailureSummaries(i) ==
  (IF BodyValid(i) THEN {} ELSE {BodySummary(i)})
    \cup (IF QueryValid(i) THEN {} ELSE {QuerySummary(i)})
    \cup (IF ParamsValid(i) THEN {} ELSE {ParamsSummary(i)})

\* C1: when the body, the query or the params fails validation, the
\* response is a 400 whose body is {error: <the summary of a failing part>},
\* the middleware is not called, nothing is passed to next and fn's promise
\* is not rejected.
C1_InvalidRequestGets400 ==
  \A i \in Invocations :
    (Started(i) /\ ~AllValid(i)) =>
      /\ pc[i] = "done"
      /\ res[i].statusCode = 400
      /\ Len(writes[i]) = 1
      /\ writes[i][1].statusCode = 400
      /\ \E summary \in FailureSummaries(i) : writes[i][1].body = ErrorBody(summary)
      /\ seen[i] = <<>>
      /\ forwarded[i] = <<>>
      /\ promise[i] = "fulfilled"

C1_Witness ==
  \E i \in Invocations :
    /\ pc[i] = "done"
    /\ BodyValid(i) /\ QueryValid(i) /\ ~ParamsValid(i)
    /\ schema.body # 0
    /\ writes[i] = <<[statusCode |-> 400,
                      body |-> ErrorBody("id: Expected string, received number")]>>

\* C2: when more than one of body, query and params fails, the summary of
\* the 400 is that of the first failing one in the order body, query,
\* params, and of no later one.
Failing(i) ==
  (IF BodyValid(i) THEN {} ELSE {"body"})
    \cup (IF QueryValid(i) THEN {} ELSE {"query"})
    \cup (IF ParamsValid(i) THEN {} ELSE {"params"})

FirstSummary(i) ==
  IF "body" \in Failing(i) THEN BodySummary(i)
  ELSE IF "query" \in Failing(i) THEN QuerySummary(i)
  ELSE ParamsSummary(i)

C2_FirstFailingPartReported ==
  \A i \in Invocations :
    (Started(i) /\ Cardinality(Failing(i)) > 1) =>
      /\ Len(writes[i]) = 1
      /\ writes[i][1].body = ErrorBody(FirstSummary(i))

C2_Witness ==
  \E i \in Invocations :
    /\ Started(i)
    /\ Failing(i) = {"body", "query", "params"}
    /\ Cardinality({BodySummary(i), QuerySummary(i), ParamsSummary(i)}) = 3
    /\ writes[i][1].body = ErrorBody("name: Expected string, received number")

\* C3: when body, query and params all validate, the middleware is called
\* exactly once, and the request it is called with holds the data the
\* validator returned for each part.
Validated(x, s) == IF s = 0 THEN x ELSE safeParse(s, x).data
ValidatedRequest(i) ==
  Request(Validated(received[i].body, schema.body),
          Validated(received[i].query, schema.query),
          Validated(received[i].params, schema.params))

C3_HandlerSeesValidatedValues ==
  \A i \in Invocations :
    (Started(i) /\ AllValid(i)) =>
      /\ seen[i] = <<ValidatedRequest(i)>>
      /\ req[i] = ValidatedRequest(i)

C3_Witness ==
  \E i \in Invocations :
    /\ Started(i) /\ AllValid(i)
    /\ received[i].body = Obj(<<Prop("name", Str("John")), Prop("extra", Str("x"))>>)
    /\ received[i].params = Obj(<<Prop("id", Str("123"))>>)
    /\ seen[i] = <<Request(Obj(<<Prop("name", Str("John"))>>),
                           Obj(<<Prop("age", Num("30"))>>),
                           Obj(<<Prop("id", Num("123"))>>))>>

\* C4: a part of the request whose schema is not declared is not validated:
\* it never keeps the middleware from being called, whatever its value, and
\* the middleware is called with the value that arrived.
DeclaredValid(i) ==
  /\ schema.body # 0 => BodyValid(i)
  /\ schema.query # 0 => QueryValid(i)
  /\ schema.params # 0 => ParamsValid(i)

C4_UndeclaredPartPassesThrough ==
  \A i \in Invocations :
    /\ (Started(i) /\ DeclaredValid(i)) => Len(seen[i]) = 1
    /\ \A k \in 1..Len(seen[i]) :
         /\ schema.body = 0 => seen[i][k].body = received[i].body
         /\ schema.query = 0 => seen[i][k].query = received[i].query
         /\ schema.params = 0 => seen[i][k].params = received[i].params

C4_Witness ==
  \E i \in Invocations :
    /\ schema.body = 0 /\ schema.query = 0 /\ schema.params # 0
    /\ received[i].body = Undefined
    /\ ~safeParse(QuerySchema, received[i].query).success
    /\ Len(seen[i]) = 1
    /\ seen[i][1].body = Undefined
    /\ seen[i][1].query = received[i].query

\* C5: what the middleware throws, in its call or through the promise fn
\* awaits, is passed to next exactly once, as the same value, and fn's own
\* promise is never rejected.
RECURSIVE ErrorsOf(_)
ErrorsOf(ts) == IF ts = <<>> THEN <<>> ELSE <<Head(ts).error>> \o ErrorsOf(Tail(ts))

C5_HandlerErrorForwardedOnce ==
  \A i \in Invocations :
    /\ forwarded[i] = ErrorsOf(thrown[i])
    /\ thrown[i] # <<>> => pc[i] = "done"
    /\ promise[i] # "rejected"

C5_Witness ==
  \E i \in Invocations :
    /\ thrown[i] = <<[error |-> "RangeError", from |-> "promise"]>>
    /\ forwarded[i] = <<"RangeError">>
    /\ promise[i] = "fulfilled"

\* C6: once the middleware is called, each of its calls of res.json
\* reaches the original res.json once, in order, with the payload it was
\* given, whether the payload matches the response schema or not.
RECURSIVE BodiesOf(_)
BodiesOf(ws) == IF ws = <<>> THEN <<>> ELSE <<Head(ws).body>> \o BodiesOf(Tail(ws))

MatchesResponse(body) ==
  safeParse(schema.response, body).success \/ safeParse(ErrorResponse, body).success

C6_ResponseWrittenUnchanged ==
  \A i \in Invocations : seen[i] # <<>> => BodiesOf(writes[i]) = calls[i]

C6_Witness ==
  \E i \in Invocations :
    /\ schema.response # 0 /\ NODE_ENV = "development"
    /\ calls[i] # <<>>
    /\ ~MatchesResponse(calls[i][Len(calls[i])])
    /\ BodiesOf(writes[i]) = calls[i]

\* C7: a call of res.json by the middleware adds exactly one warning when
\* NODE_ENV is not production, a response schema is declared and the
\* payload matches neither it nor ErrorResponse, and adds none otherwise;
\* no other step adds a warning.
Mismatch(body) ==
  NODE_ENV # "production" /\ schema.response # 0 /\ ~MatchesResponse(body)

ResponseWarning == "Note: Response JSON does not match schema:\nInvalid input"

C7_OneWarningPerMismatch ==
  [][/\ \A i \in Invocations : \A body \in Payloads :
          calls'[i] = Append(calls[i], body) =>
            console' = console \o (IF Mismatch(body) THEN <<ResponseWarning>> ELSE <<>>)
     /\ calls' = calls => console' = console]_vars

C7_Witness ==
  \E i \in Invocations :
    /\ calls[i] # <<>>
    /\ Mismatch(calls[i][Len(calls[i])])
    /\ console # <<>>

\* the violations of the part whose summary the 400 carries
FirstIssues(i) ==
  IF ~BodyValid(i) THEN safeParse(schema.body, received[i].body).issues
  ELSE IF ~QueryValid(i) THEN safeParse(schema.query, received[i].query).issues
  ELSE safeParse(schema.params, received[i].params).issues

RECURSIVE Dotted(_)
Dotted(path) ==
  IF Len(path) = 1 THEN path[1]
  ELSE Dotted(SubSeq(path, 1, Len(path) - 1)) \o "." \o path[Len(path)]

Rendered(issue) ==
  IF issue.path = <<>> THEN issue.message
  ELSE Dotted(issue.path) \o ": " \o issue.message

RECURSIVE Listed(_)
Listed(is) ==
  IF is = <<>> THEN ""
  ELSE IF Len(is) = 1 THEN Rendered(is[1])
  ELSE Listed(SubSeq(is, 1, Len(is) - 1)) \o ", " \o Rendered(is[Len(is)])

\* C22: the summary a 400 carries lists every violation of the failing
\* part, in the validator's order, separated by ", "; a violation is
\* rendered as its path joined by dots, ": " and its message, or as its
\* message alone when its path is empty.  The body {name: 123} against
\* name: string gives "name: Expected string, received number".
C22_SummaryListsEveryViolation ==
  \A i \in Invocations :
    (Started(i) /\ ~AllValid(i)) =>
      /\ Len(writes[i]) = 1
      /\ writes[i][1].body = ErrorBody(Listed(FirstIssues(i)))
      /\ (schema.body = BodySchema
            /\ received[i].body = Obj(<<Prop("name", Num("123"))>>)) =>
           writes[i][1].body = ErrorBody("name: Expected string, received number")

C22_Witness ==
  \E i \in Invocations :
    /\ Started(i)
    /\ schema.body = ProfileSchema
    /\ Len(FirstIssues(i)) = 2
    /\ FirstIssues(i)[2].path = <<"address", "city">>
    /\ writes[i] =
         <<[statusCode |-> 400,
            body |-> ErrorBody("name: Expected string, received number, "
                               \o "address.city: Expected string, received number")]>>

\* the parts a schema is declared for, in the order of lines 85-87
DeclaredParts ==
  SelectSeq(<<"body", "query", "params">>, LAMBDA part : schema[part] # 0)

PartsOf(cs) == [k \in 1..Len(cs) |-> cs[k].part]

\* C23: a call of fn validates each of body, query and params that has a
\* declared schema exactly once, against that schema and with the value
\* that arrived, whether the others validate or not; all of them are
\* validated by the time the 400 is written or the middleware is called,
\* and none is validated again afterwards.
C23_EachDeclaredPartValidatedOnce ==
  [][\A i \in Invocations :
       /\ (writes'[i] # <<>> \/ seen'[i] # <<>> \/ pc'[i] # "idle") =>
            /\ PartsOf(validated'[i]) = DeclaredParts
            /\ \A k \in 1..Len(validated'[i]) :
                 /\ validated'[i][k].schema = schema[validated'[i][k].part]
                 /\ validated'[i][k].value = received[i][validated'[i][k].part]
       /\ validated[i] # <<>> => validated'[i] = validated[i]]_vars

C23_Witness ==
  \E i \in Invocations :
    /\ ~BodyValid(i) /\ ~QueryValid(i) /\ ParamsValid(i)
    /\ PartsOf(validated[i]) = <<"body", "query", "params">>
    /\ Len(writes[i]) = 1
    /\ writes[i][1].statusCode = 400

\* the parts of the request that validate: every combination occurs
Outcome(i) ==
  IF writes[i] # <<>> /\ writes[i][1].statusCode = 400 /\ seen[i] = <<>> THEN "400"
  ELSE IF seen[i] # <<>> /\ (writes[i] = <<>> \/ writes[i][1].statusCode # 400) THEN "handler"
  ELSE IF writes[i] = <<>> /\ seen[i] = <<>> THEN "neither"
  ELSE "both"

\* C24: whatever the three validations give, a call of fn ends in exactly
\* one of two ways: it writes a 400 when at least one validation failed,
\* and it calls the middleware when all three succeeded; it never does
\* both or neither, and it never passes the error "zod-express-guard could
\* not validate this request" to next.
C24_EitherA400OrTheHandler ==
  \A i \in Invocations :
    /\ Started(i) => Outcome(i) = (IF AllValid(i) THEN "handler" ELSE "400")
    /\ ~Started(i) => Outcome(i) = "neither"
    /\ \A k \in 1..Len(forwarded[i]) : forwarded[i][k] # CouldNotValidate

C24_Witness ==
  \E i \in Invocations :
    /\ Started(i)
    /\ BodyValid(i) /\ ~QueryValid(i) /\ ParamsValid(i)
    /\ schema.body # 0 /\ schema.params # 0
    /\ Outcome(i) = "400"
    /\ forwarded[i] = <<>>

\* C28: when a validation fails, the request keeps the body, the query and
\* the params it arrived with, those that validate included; res.json is
\* not patched, the 400 is the only write, and no warning is printed.
C28_FailedRequestLeftAsReceived ==
  \A i \in Invocations :
    (Started(i) /\ ~AllValid(i)) =>
      /\ req[i] = received[i]
      /\ res[i].json = "original"
      /\ calls[i] = <<>>
      /\ Len(writes[i]) = 1
      /\ console = <<>>

C28_Witness ==
  \E i \in Invocations :
    /\ Started(i)
    /\ ~BodyValid(i)
    /\ schema.params = ParamsCoerced /\ ParamsValid(i)
    /\ Validated(received[i].params, schema.params) # received[i].params
    /\ req[i].params = received[i].params
    /\ res[i].json = "original"
    /\ writes[i] # <<>>

StatusCodesOf(ws) == [k \in 1..Len(ws) |-> ws[k].statusCode]

\* what a call of fn does when no other request is in flight, as a function
\* of its own request and of what its own middleware did
OutcomeAlone(i) ==
  IF ~Started(i)
  THEN /\ req[i] = received[i] /\ seen[i] = <<>> /\ writes[i] = <<>> /\ forwarded[i] = <<>>
  ELSE IF ~AllValid(i)
  THEN /\ writes[i] = <<[statusCode |-> 400, body |-> ErrorBody(FirstSummary(i))]>>
       /\ req[i] = received[i]
       /\ seen[i] = <<>>
       /\ forwarded[i] = <<>>
       /\ pc[i] = "done"
  ELSE /\ seen[i] = <<ValidatedRequest(i)>>
       /\ req[i] = ValidatedRequest(i)
       /\ BodiesOf(writes[i]) = calls[i]
       /\ \A k \in 1..Len(writes[i]) : writes[i][k].statusCode = 200
       /\ forwarded[i] = ErrorsOf(thrown[i])

\* the variables of one call of fn
Own(i) ==
  <<pc[i], req[i], validated[i], res[i], seen[i], thrown[i], calls[i], writes[i],
    forwarded[i], promise[i]>>

\* C25: with two requests in flight on the same wrapped handler, in any
\* interleaving of their steps (those across the await of line 114
\* included), the 400 of each call of fn, the request its middleware is
\* called with, the payloads written to its response and the errors passed
\* to its next are those of that call running alone; a step of one call
\* changes nothing of the other.
C25_InvocationsDoNotInterfere ==
  /\ [](\A i \in Invocations : OutcomeAlone(i))
  /\ [][\A i, j \in Invocations : (i # j /\ Own(i)' # Own(i)) => Own(j)' = Own(j)]_vars

C25_Witness ==
  /\ pc["r1"] = "await" /\ pc["r2"] = "await"
  /\ received["r1"] # received["r2"]
  /\ seen["r1"] # seen["r2"]
  /\ calls["r1"] = <<Obj(<<Prop("success", Bool("true"))>>)>>
  /\ calls["r2"] = <<Obj(<<Prop("error", Str("Not found"))>>)>>
  /\ BodiesOf(writes["r1"]) = calls["r1"]
  /\ BodiesOf(writes["r2"]) = calls["r2"]

(***************************************************************************)
(* Properties of the route configs, checked under SpecDoc.                 *)
(***************************************************************************)
\* the result of referencingNamedSchemas for a field of the route
ResolvedAs(f) == {c.result : c \in {c \in Resolutions : c.field = f}}

\* a ZodObject, registered under a name or not
ObjectShaped(result) ==
  /\ result.kind \in {"registered", "schema"}
  /\ ZodHeap[result.schema].type = "ZodObject"

Collapsed(result) == IF ObjectShaped(result) THEN result ELSE Absent

\* C26: the params and the query of a route config are what
\* referencingNamedSchemas resolved the descriptor's params and query to
\* when that is a ZodObject (a registered one included), and are absent
\* when it is anything else: an array, an array of a registered schema, the
\* inner type of a transform that is no object, or nothing.
C26_NonObjectParamsAndQueryCollapse ==
  \A k \in Configs :
    /\ \A result \in ResolvedAs("params") :
         definitions[k].request.params = Collapsed(result)
    /\ \A result \in ResolvedAs("query") :
         definitions[k].request.query = Collapsed(result)

C26_Witness ==
  \E k \in Configs :
    /\ DescriptorOf(k).query = ResponseList
    /\ ResolvedAs("query") = {ArrayOf(Registered("Response", ResponseSchema))}
    /\ ResolvedAs("params") = {Absent}
    /\ definitions[k].request.query = Absent
    /\ docpc = "returned"
    /\ openapiJSON.paths[k].parameters = <<>>

\* C29: every route getRoutes returned has its route config and its
\* operation, in order.  The config of a route whose handler carries no
\* descriptor has the tag "default", no params, no query and no body, and
\* its responses are a 204 with no content and those of 401 and 403 that
\* the caller described: no 400, no 404 and no 200.
C29_UndescribedRouteRegistered ==
  /\ docpc \notin {"idle", "load", "routes"} => Len(definitions) = Len(routes)
  /\ docpc = "returned" => Len(openapiJSON.paths) = Len(routes)
  /\ \A k \in Configs :
       /\ definitions[k].method = routes[k].method
       /\ ~routes[k].handler.wrapped =>
            /\ definitions[k].tags = <<"default">>
            /\ definitions[k].request = [params |-> Absent, query |-> Absent, body |-> Absent]
            /\ Codes(k) = {204} \cup (IF Truthy(errors.e401) THEN {401} ELSE {})
                                \cup (IF Truthy(errors.e403) THEN {403} ELSE {})
            /\ definitions[k].responses[204] =
                 [description |-> "No content - successful operation", content |-> "",
                  schema |-> Absent]

C29_Witness ==
  /\ docpc = "returned"
  /\ routes = <<Route(TestPath, "post", Unwrapped)>>
  /\ errors = ErrorMap(Some("Unauthorized"), None)
  /\ Len(openapiJSON.paths) = 1
  /\ openapiJSON.paths[1].tags = <<"default">>
  /\ openapiJSON.paths[1].parameters = <<>>
  /\ DOMAIN openapiJSON.paths[1].responses = {204, 401}

====
